---- MODULE Spec2Model ----
(***************************************************************************)
(* The encrypted entry store of journal.py: JournalEntry, JournalManager   *)
(* (key lifecycle, load, save, add/edit/delete) and the three per-user     *)
(* files key_<user>.key, journal_<user>.json, backup_journal_<user>.json.  *)
(* One username is modelled; a session is one JournalManager instance.     *)
(***************************************************************************)
EXTENDS Integers, Sequences, FiniteSets, TLC

\* ---------------------------------------------------------------- bounds
MaxLen == 2                    \* longest collection the model builds
MaxFail == 1                   \* I/O failures injected in one behaviour

\* ------------------------------------------------------- input universes
Sessions == {1, 2}             \* JournalManager instances (processes)
Keys == {"k1", "k2"}           \* outcomes of Fernet.generate_key()
\* Timestamps: calendar-date portion and time of day.
Dates == {[day |-> 1, tod |-> 0], [day |-> 2, tod |-> 1]}
None == "None"                 \* Python's None (forgettable_thing)

\* ------------------------------------------------------------ JournalEntry
\* JournalEntry.__init__: tags/completed_tasks default to [] when falsy,
\* date is the clock reading at construction.
JournalEntry(title, content, mood, mood_rating, tags, completed_tasks, forgettable_thing, now) ==
  [title |-> title, content |-> content, mood |-> mood,
   mood_rating |-> mood_rating,
   tags |-> IF tags # <<>> THEN tags ELSE <<>>,
   completed_tasks |-> IF completed_tasks # <<>> THEN completed_tasks ELSE <<>>,
   forgettable_thing |-> forgettable_thing,
   date |-> now]

\* JournalEntry.to_dict: the eight-field record, 'date' included.
to_dict(e) ==
  [title |-> e.title, content |-> e.content, mood |-> e.mood,
   mood_rating |-> e.mood_rating, tags |-> e.tags,
   completed_tasks |-> e.completed_tasks,
   forgettable_thing |-> e.forgettable_thing, date |-> e.date]

\* Entries the collaborators hand to the store (built at any earlier time).
Entries ==
  { JournalEntry("A", "text", "happy", 8, <<>>, <<>>, None, [day |-> 1, tod |-> 0]),
    JournalEntry("B", "text", "sad", 2, <<>>, <<>>, None, [day |-> 2, tod |-> 1]) }

NoEntry == [none |-> TRUE]

\* Keyword parameters of JournalEntry.__init__ and those without default.
InitParams == {"title", "content", "mood", "mood_rating", "tags",
               "completed_tasks", "forgettable_thing"}
RequiredParams == {"title", "content", "mood", "mood_rating"}

\* JournalEntry(**d) raises TypeError on an unexpected or a missing keyword.
CanConstruct(d) ==
  DOMAIN d \subseteq InitParams /\ RequiredParams \subseteq DOMAIN d

FromDict(d, now) ==
  JournalEntry(d.title, d.content, d.mood, d.mood_rating,
               IF "tags" \in DOMAIN d THEN d.tags ELSE <<>>,
               IF "completed_tasks" \in DOMAIN d THEN d.completed_tasks ELSE <<>>,
               IF "forgettable_thing" \in DOMAIN d THEN d.forgettable_thing ELSE None,
               now)

\* ------------------------------------------------------- json and Fernet
\* Text is either the JSON encoding of a value or text that is not JSON.
json_dumps(v) == [fmt |-> "json", val |-> v]
NotJson == [fmt |-> "text"]
json_ok(t) == t.fmt = "json"
json_loads(t) == t.val

\* File contents.
FileMissing == [kind |-> "missing"]
FileEmpty == [kind |-> "empty"]
FileGarbage == [kind |-> "garbage"]      \* not a Fernet token (e.g. truncated)

\* JournalManager._encrypt: a token binds the key and the plaintext. (The
\* token's random IV and timestamp are left out: a token stands for any
\* encryption of text under k.)
Encrypt(k, text) == [kind |-> "token", key |-> k, plain |-> text]
\* JournalManager._decrypt raises InvalidToken unless the token was made
\* under the held key.
CanDecrypt(k, data) == data.kind = "token" /\ data.key = k
Decrypt(k, data) == data.plain

\* The records of a collection, in order.
Records(ents) == [i \in 1..Len(ents) |-> to_dict(ents[i])]


\* open(path, mode): 'w' truncates an existing file, 'r'/'rb' leaves it.
OpenFile(data, mode) == IF mode = "w" THEN FileEmpty ELSE data

\* ------------------------------------------------------------------ state
VARIABLES
  keyFile,      \* key_<user>.key: "missing", "corrupt" (not a Fernet key) or a key
  dataFile,     \* journal_<user>.json
  backupFile,   \* backup_journal_<user>.json
  st,           \* per session: "closed" (no JournalManager) or "open"
  key,          \* per session: self.key
  entries,      \* per session: self.entries
  lastCall,     \* the last call made, its arguments and what the caller saw
  fails,        \* I/O failures injected so far
  procs         \* the sessions that run in this configuration

vars == <<keyFile, dataFile, backupFile, st, key, entries, lastCall, fails, procs>>

Call(op, s, idx, arg, ret, diag, fault, io) ==
  [op |-> op, sess |-> s, idx |-> idx, arg |-> arg, ret |-> ret,
   diag |-> diag, fault |-> fault, io |-> io]

\* ---------------------------------------------------------- key lifecycle
KeyIO == {"ok", "fail_open", "fail_write"}

\* GetOrCreateKey with a fault: the key is generated and written on every open.
GetOrCreateKeyRegen(kf, kio, k) ==
  IF kio = "ok" THEN [keyFile |-> k, key |-> k, fault |-> FALSE]
  ELSE [keyFile |-> kf, key |-> "none", fault |-> TRUE]

\* JournalManager._get_or_create_key. kio is the outcome of the file
\* operation, k the key Fernet.generate_key() would return.
GetOrCreateKey(kf, kio, k) ==
  IF kf # "missing"
  THEN IF kio = "ok"
       THEN [keyFile |-> kf, key |-> kf, fault |-> FALSE]
       ELSE [keyFile |-> kf, key |-> "none", fault |-> TRUE]
  ELSE CASE kio = "ok" -> [keyFile |-> k, key |-> k, fault |-> FALSE]
         [] kio = "fail_open" -> [keyFile |-> "missing", key |-> "none", fault |-> TRUE]
         [] kio = "fail_write" -> [keyFile |-> "corrupt", key |-> "none", fault |-> TRUE]

\* Fernet(key) raises ValueError unless key is 32 url-safe base64 bytes.
FernetOk(k) == k \in Keys

\* ------------------------------------------------------------------- load
\* LoadError with a fault: the unreadable file is emptied.
LoadErrorReset(data) ==
  [entries |-> <<>>, diag |-> "load_error", data |-> FileEmpty]

\* The except clause of load_entries: report, fall back to [], file as read.
LoadError(data) == [entries |-> <<>>, diag |-> "load_error", data |-> data]

\* LoadEntries with a fault: the file content is decrypted without the emptiness test.
LoadEntriesEager(cur, data, k, rio, now) ==
  IF data.kind = "missing"
  THEN [entries |-> cur, diag |-> "none", data |-> data]
  ELSE IF rio = "fail" \/ ~CanDecrypt(k, data) THEN LoadError(data)
  ELSE IF ~json_ok(Decrypt(k, data)) THEN LoadError(data)
  ELSE IF \E i \in 1..Len(json_loads(Decrypt(k, data))) :
            ~CanConstruct(json_loads(Decrypt(k, data))[i])
  THEN LoadError(data)
  ELSE [entries |-> [i \in 1..Len(json_loads(Decrypt(k, data))) |->
                       FromDict(json_loads(Decrypt(k, data))[i], now)],
        diag |-> "none", data |-> data]

\* JournalManager.load_entries. cur is self.entries on entry, rio the
\* outcome of reading the file, now the clock.
LoadEntries(cur, data, k, rio, now) ==
  IF data.kind = "missing"
  THEN [entries |-> cur, diag |-> "none", data |-> data]
  ELSE LET f == OpenFile(data, "r") IN
       IF rio = "fail" THEN LoadError(f)
       ELSE IF f.kind = "empty"
       THEN [entries |-> <<>>, diag |-> "none", data |-> f]
       ELSE IF ~CanDecrypt(k, f) THEN LoadError(f)
       ELSE LET text == Decrypt(k, f) IN
            IF ~json_ok(text) THEN LoadError(f)
            ELSE LET v == json_loads(text) IN
                 IF \E i \in 1..Len(v) : ~CanConstruct(v[i])
                 THEN LoadError(f)
                 ELSE [entries |-> [i \in 1..Len(v) |-> FromDict(v[i], now)],
                       diag |-> "none", data |-> f]

\* ------------------------------------------------------------------- save
SavePoints == {"none", "encode", "open_primary", "write_primary",
               "open_backup", "write_backup"}
Torn == {"nothing", "partial"}   \* how much a failed write flushed
\* The amount flushed matters only when a write raises.
TornAt(fp) == IF fp \in {"write_primary", "write_backup"} THEN Torn ELSE {"nothing"}
IoOf(fp) == IF fp = "none" THEN "ok" ELSE "fail"
\* The environment's failure budget.
MayFail(io) == io = "ok" \/ fails < MaxFail
Spent(io) == IF io = "ok" THEN fails ELSE fails + 1

\* file.write(text) that raises: the file keeps what open() left, or a
\* prefix of the text, which is not a token.
FailedWrite(f, tr) == IF tr = "partial" THEN FileGarbage ELSE f

\* SaveEntries with a fault: the backup copy is never written.
SaveEntriesNoBackup(ents, k, fp, tr, data, backup) ==
  IF fp \in {"encode", "open_primary"}
  THEN [data |-> data, backup |-> backup, diag |-> "save_error"]
  ELSE IF fp = "write_primary"
  THEN [data |-> FailedWrite(OpenFile(data, "w"), tr), backup |-> backup,
        diag |-> "save_error"]
  ELSE [data |-> Encrypt(k, json_dumps(Records(ents))), backup |-> backup,
        diag |-> IF fp = "none" THEN "none" ELSE "save_error"]

\* SaveEntries with a fault: the backup is a copy of what the journal file
\* held before this save.
SaveEntriesKeepOld(ents, k, fp, tr, data, backup) ==
  IF fp \in {"encode", "open_primary"}
  THEN [data |-> data, backup |-> backup, diag |-> "save_error"]
  ELSE IF fp = "write_primary"
  THEN [data |-> FailedWrite(OpenFile(data, "w"), tr), backup |-> backup,
        diag |-> "save_error"]
  ELSE [data |-> Encrypt(k, json_dumps(Records(ents))),
        backup |-> IF fp = "none" THEN data ELSE backup,
        diag |-> IF fp = "none" THEN "none" ELSE "save_error"]

\* JournalManager.save_entries. fp is the step that raises ("none": no
\* failure), tr how much a failed write flushed.
SaveEntries(ents, k, fp, tr, data, backup) ==
  LET encrypted_data == Encrypt(k, json_dumps(Records(ents))) IN
  CASE fp = "encode" ->
         [data |-> data, backup |-> backup, diag |-> "save_error"]
    [] fp = "open_primary" ->
         [data |-> data, backup |-> backup, diag |-> "save_error"]
    [] fp = "write_primary" ->
         [data |-> FailedWrite(OpenFile(data, "w"), tr),
          backup |-> backup, diag |-> "save_error"]
    [] fp = "open_backup" ->
         [data |-> encrypted_data, backup |-> backup, diag |-> "save_error"]
    [] fp = "write_backup" ->
         [data |-> encrypted_data,
          backup |-> FailedWrite(OpenFile(backup, "w"), tr),
          diag |-> "save_error"]
    [] fp = "none" ->
         [data |-> encrypted_data, backup |-> encrypted_data, diag |-> "none"]

\* --------------------------------------------------------- list operations
\* IndexOk with a fault: negative indices are let through.
IndexOkWrap(index, n) == index < n

\* 0 <= index < len(self.entries)
IndexOk(index, n) == 0 <= index /\ index < n

\* self.entries[index] = new_entry (index is 0-based)
SetAt(ents, index, e) == [ents EXCEPT ![index + 1] = e]

\* DelAt with a fault: the last entry is removed whatever the index.
DelAtLast(ents, index) == SubSeq(ents, 1, Len(ents) - 1)

\* del self.entries[index]
DelAt(ents, index) ==
  [j \in 1..(Len(ents) - 1) |-> IF j <= index THEN ents[j] ELSE ents[j + 1]]

\* self.entries.append(entry)
AppendEntry(ents, e) == ents \o <<e>>

\* ---------------------------------------------------------------- actions
Indexes == -1 .. MaxLen         \* indices a caller may pass

\* JournalManager.__init__: key, cipher, entries = [], load_entries.
\* An exception before load_entries is not caught: no instance results.
Open(s) ==
  /\ s \in procs
  /\ st[s] = "closed"
  /\ \E kio \in KeyIO, k \in Keys, rio \in {"ok", "fail"}, now \in Dates :
       LET g == GetOrCreateKey(keyFile, kio, k)
           l == LoadEntries(<<>>, dataFile, g.key, rio, now)
           io == IF kio = "ok" THEN rio ELSE "fail"
       IN /\ MayFail(io)
          /\ fails' = Spent(io)
          /\ keyFile' = g.keyFile
          /\ IF ~g.fault /\ FernetOk(g.key)
             THEN /\ st' = [st EXCEPT ![s] = "open"]
                  /\ key' = [key EXCEPT ![s] = g.key]
                  /\ entries' = [entries EXCEPT ![s] = l.entries]
                  /\ dataFile' = l.data
                  /\ lastCall' = Call("open", s, 0, NoEntry, "None", l.diag,
                                      FALSE, rio)
             ELSE /\ UNCHANGED <<st, key, entries, dataFile>>
                  /\ lastCall' = Call("open", s, 0, NoEntry, "None", "none",
                                      TRUE, IF kio = "ok" THEN "ok" ELSE "fail")
  /\ UNCHANGED <<backupFile, procs>>

\* The files after self.save_entries() of session s holding ents.
Saved(s, ents, fp, tr) ==
  SaveEntries(ents, key[s], fp, tr, dataFile, backupFile)

\* JournalManager.add_entry
Add(s) ==
  /\ s \in procs
  /\ st[s] = "open"
  /\ Len(entries[s]) < MaxLen
  /\ \E e \in Entries, fp \in SavePoints : \E tr \in TornAt(fp) :
       LET ents == AppendEntry(entries[s], e)
           sv == Saved(s, ents, fp, tr)
       IN /\ MayFail(IoOf(fp))
          /\ fails' = Spent(IoOf(fp))
          /\ entries' = [entries EXCEPT ![s] = ents]
          /\ dataFile' = sv.data
          /\ backupFile' = sv.backup
          /\ lastCall' = Call("add", s, 0, e, "None", sv.diag, FALSE, IoOf(fp))
  /\ UNCHANGED <<keyFile, st, key, procs>>

\* JournalManager.edit_entry
Edit(s) ==
  /\ s \in procs
  /\ st[s] = "open"
  /\ \E index \in Indexes, e \in Entries :
       IF IndexOk(index, Len(entries[s]))
       THEN \E fp \in SavePoints : \E tr \in TornAt(fp) :
            LET ents == SetAt(entries[s], index, e)
                sv == Saved(s, ents, fp, tr)
            IN /\ MayFail(IoOf(fp))
               /\ fails' = Spent(IoOf(fp))
               /\ entries' = [entries EXCEPT ![s] = ents]
               /\ dataFile' = sv.data
               /\ backupFile' = sv.backup
               /\ lastCall' = Call("edit", s, index, e, "True", sv.diag,
                                   FALSE, IoOf(fp))
       ELSE /\ UNCHANGED <<entries, dataFile, backupFile, fails>>
            /\ lastCall' = Call("edit", s, index, e, "False", "none",
                                FALSE, "ok")
  /\ UNCHANGED <<keyFile, st, key, procs>>

\* JournalManager.delete_entry
Delete(s) ==
  /\ s \in procs
  /\ st[s] = "open"
  /\ \E index \in Indexes :
       IF IndexOk(index, Len(entries[s]))
       THEN \E fp \in SavePoints : \E tr \in TornAt(fp) :
            LET ents == DelAt(entries[s], index)
                sv == Saved(s, ents, fp, tr)
            IN /\ MayFail(IoOf(fp))
               /\ fails' = Spent(IoOf(fp))
               /\ entries' = [entries EXCEPT ![s] = ents]
               /\ dataFile' = sv.data
               /\ backupFile' = sv.backup
               /\ lastCall' = Call("delete", s, index, NoEntry, "True",
                                   sv.diag, FALSE, IoOf(fp))
       ELSE /\ UNCHANGED <<entries, dataFile, backupFile, fails>>
            /\ lastCall' = Call("delete", s, index, NoEntry, "False", "none",
                                FALSE, "ok")
  /\ UNCHANGED <<keyFile, st, key, procs>>

\* Logout (main_menu returns) or process exit: the instance is dropped.
Close(s) ==
  /\ s \in procs
  /\ st[s] = "open"
  /\ st' = [st EXCEPT ![s] = "closed"]
  /\ key' = [key EXCEPT ![s] = "none"]
  /\ entries' = [entries EXCEPT ![s] = <<>>]
  /\ lastCall' = Call("close", s, 0, NoEntry, "None", "none", FALSE, "ok")
  /\ UNCHANGED <<keyFile, dataFile, backupFile, fails, procs>>

\* ------------------------------------------------------------------ search
\* What the user types at the date prompts: "YYYY-MM-DD" text naming a day,
\* or text strptime rejects.
DateText(d) == [text |-> "ymd", day |-> d]
BadDateText == [text |-> "bad"]
DateInputs == {DateText(1), DateText(2), BadDateText}

\* datetime.strptime(t, "%Y-%m-%d"): midnight of the day, or ValueError.
StrptimeOk(t) == t.text = "ymd"
Strptime(t) == [day |-> t.day, tod |-> 0]

\* entry.date[:10]: the calendar-date portion of the timestamp text.
DatePortion(date) == DateText(date.day)

\* datetime <= datetime
DatetimeLe(a, b) == a.day < b.day \/ (a.day = b.day /\ a.tod <= b.tod)

\* InDateRange with a fault: the entry's timestamp is compared unsliced.
InDateRangeUnsliced(e, start, end) ==
  /\ DatetimeLe(start, e.date)
  /\ DatetimeLe(e.date, end)

\* start <= datetime.strptime(entry.date[:10], "%Y-%m-%d") <= end
InDateRange(e, start, end) ==
  /\ DatetimeLe(start, Strptime(DatePortion(e.date)))
  /\ DatetimeLe(Strptime(DatePortion(e.date)), end)

\* The list comprehension of choice '2'.
FoundByDate(ents, start, end) ==
  LET Hit(e) == InDateRange(e, start, end) IN SelectSeq(ents, Hit)

\* JournalManager.search_entries, option 2 (by date range): the entries
\* shown, or the "Invalid date format" report and nothing shown.
SearchByDateRange(s) ==
  /\ s \in procs
  /\ st[s] = "open"
  /\ \E start_date \in DateInputs, end_date \in DateInputs :
       IF StrptimeOk(start_date) /\ StrptimeOk(end_date)
       THEN lastCall' = Call("search", s, 0,
                             [start |-> start_date, end |-> end_date],
                             FoundByDate(entries[s], Strptime(start_date),
                                         Strptime(end_date)),
                             "none", FALSE, "ok")
       ELSE lastCall' = Call("search", s, 0,
                             [start |-> start_date, end |-> end_date],
                             <<>>, "invalid_date", FALSE, "ok")
  /\ UNCHANGED <<keyFile, dataFile, backupFile, st, key, entries, fails, procs>>

\* ------------------------------------------------- two processes, one user
\* Two JournalManager instances for one username live in two processes, so
\* the file operations of their saves interleave. A save in progress is
\* recorded in st: "save_primary" (journal file opened with 'w', nothing
\* written yet), "save_backup_open" (journal file written and closed),
\* "save_backup" (backup opened with 'w'). self.entries does not change
\* during a save, so the token being written is that of entries[s].
Pending(s) == Encrypt(key[s], json_dumps(Records(entries[s])))

\* Length of a file's content, in units that order tokens by the number
\* of records they hold (tokens of equally many records count as equal).
Size(f) ==
  CASE f.kind \in {"missing", "empty"} -> 0
    [] f.kind = "garbage" -> 1
    [] f.kind = "mixed" -> f.size
    [] f.kind = "token" ->
         IF json_ok(f.plain) THEN Len(json_loads(f.plain)) + 1 ELSE 1

\* file.write(text) and close on a descriptor opened with 'w' some time
\* ago: text lands at offset 0 of whatever the file holds by now; a longer
\* content keeps its tail, and the mix is no token.
WriteOver(f, text) ==
  IF Size(f) > Size(text) THEN [kind |-> "mixed", size |-> Size(f)] ELSE text

\* save_entries up to and including open(self.filename, 'w').
BeginSave(s, ents, op, index, e) ==
  /\ entries' = [entries EXCEPT ![s] = ents]
  /\ dataFile' = OpenFile(dataFile, "w")
  /\ st' = [st EXCEPT ![s] = "save_primary"]
  /\ lastCall' = Call(op, s, index, e, "None", "none", FALSE, "ok")
  /\ UNCHANGED <<keyFile, backupFile, key, fails, procs>>

\* add_entry up to the opening of the journal file.
BeginAdd(s) ==
  /\ s \in procs
  /\ st[s] = "open"
  /\ Len(entries[s]) < MaxLen
  /\ \E e \in Entries :
       BeginSave(s, AppendEntry(entries[s], e), "begin_add", 0, e)

\* edit_entry up to the opening of the journal file, or its refusal.
BeginEdit(s) ==
  /\ s \in procs
  /\ st[s] = "open"
  /\ \E index \in Indexes, e \in Entries :
       IF IndexOk(index, Len(entries[s]))
       THEN BeginSave(s, SetAt(entries[s], index, e), "begin_edit", index, e)
       ELSE /\ lastCall' = Call("edit", s, index, e, "False", "none",
                                FALSE, "ok")
            /\ UNCHANGED <<keyFile, dataFile, backupFile, st, key, entries,
                           fails, procs>>

\* delete_entry up to the opening of the journal file, or its refusal.
BeginDelete(s) ==
  /\ s \in procs
  /\ st[s] = "open"
  /\ \E index \in Indexes :
       IF IndexOk(index, Len(entries[s]))
       THEN BeginSave(s, DelAt(entries[s], index), "begin_delete", index,
                      NoEntry)
       ELSE /\ lastCall' = Call("delete", s, index, NoEntry, "False", "none",
                                FALSE, "ok")
            /\ UNCHANGED <<keyFile, dataFile, backupFile, st, key, entries,
                           fails, procs>>

\* file.write(encrypted_data) and the end of the first with block.
WritePrimary(s) ==
  /\ s \in procs
  /\ st[s] = "save_primary"
  /\ dataFile' = WriteOver(dataFile, Pending(s))
  /\ st' = [st EXCEPT ![s] = "save_backup_open"]
  /\ lastCall' = Call("write_primary", s, 0, NoEntry, "None", "none", FALSE, "ok")
  /\ UNCHANGED <<keyFile, backupFile, key, entries, fails, procs>>

\* open(backup_file, 'w')
OpenBackup(s) ==
  /\ s \in procs
  /\ st[s] = "save_backup_open"
  /\ backupFile' = OpenFile(backupFile, "w")
  /\ st' = [st EXCEPT ![s] = "save_backup"]
  /\ lastCall' = Call("open_backup", s, 0, NoEntry, "None", "none", FALSE, "ok")
  /\ UNCHANGED <<keyFile, dataFile, key, entries, fails, procs>>

\* The backup's file.write(encrypted_data); save_entries and the call return.
WriteBackup(s) ==
  /\ s \in procs
  /\ st[s] = "save_backup"
  /\ backupFile' = WriteOver(backupFile, Pending(s))
  /\ st' = [st EXCEPT ![s] = "open"]
  /\ lastCall' = Call("write_backup", s, 0, NoEntry, "None", "none", FALSE, "ok")
  /\ UNCHANGED <<keyFile, dataFile, key, entries, fails, procs>>

\* ----------------------------------------------------------- specification
\* What the disk may hold when the program first runs: nothing, or files
\* left damaged (a bad key file, an empty or unreadable data file, data
\* written under a key that has since been lost).
InitKeyFiles == {"missing", "corrupt", "k1"}
InitDataFiles == {FileMissing, FileEmpty, FileGarbage,
                  Encrypt("k2", json_dumps(<<>>)),
                  Encrypt("k1", NotJson)}

InitCommon ==
  /\ keyFile \in InitKeyFiles
  /\ dataFile \in InitDataFiles
  /\ backupFile = FileMissing
  /\ st = [s \in Sessions |-> "closed"]
  /\ key = [s \in Sessions |-> "none"]
  /\ entries = [s \in Sessions |-> <<>>]
  /\ lastCall = Call("none", 0, 0, NoEntry, "None", "none", FALSE, "ok")
  /\ fails = 0

\* One session at a time (spec section 5): a single process that opens,
\* works, logs out and opens again.
Init == InitCommon /\ procs = {1}

Next ==
  \E s \in Sessions : Open(s) \/ Add(s) \/ Edit(s) \/ Delete(s) \/ Close(s)

Spec == Init /\ [][Next]_vars

\* The same session with the read-side query of the menu added.
NextSearch ==
  \E s \in Sessions :
    \/ Open(s) \/ Add(s) \/ Edit(s) \/ Delete(s) \/ Close(s)
    \/ SearchByDateRange(s)

SpecSearch == Init /\ [][NextSearch]_vars

\* Two processes on one username, their saves interleaved step by step.
InitTwo == InitCommon /\ procs = {1, 2}

NextTwo ==
  \E s \in Sessions :
    \/ Open(s) \/ Close(s)
    \/ BeginAdd(s) \/ BeginEdit(s) \/ BeginDelete(s)
    \/ WritePrimary(s) \/ OpenBackup(s) \/ WriteBackup(s)

SpecTwo == InitTwo /\ [][NextTwo]_vars

\* ------------------------------------------------------------------ claims
Mutators == {"add", "edit", "delete"}

\* The session of the last call and, in a step, of the call being made.
Sess == lastCall.sess

\* The data file holds a token under session s's key whose plaintext is a
\* JSON list: what a save of that key's owner wrote.
SavedFile(s) ==
  /\ CanDecrypt(key[s], dataFile)
  /\ json_ok(Decrypt(key[s], dataFile))

\* C1: round trip. After an open that read the file without I/O failure,
\* the in-memory collection's records equal the records a completed save
\* left in the data file, in the same order.
C1_RoundTrip ==
  (/\ lastCall.op = "open"
   /\ ~lastCall.fault
   /\ lastCall.io = "ok"
   /\ SavedFile(Sess))
  => Records(entries[Sess]) = json_loads(Decrypt(key[Sess], dataFile))

\* C2: index safety. edit/delete with index < 0 or index >= length return
\* False and change neither the collection nor the two files; with
\* 0 <= index < length they return True.
C2_IndexSafety ==
  [][lastCall'.op \in {"edit", "delete"} =>
       LET s == lastCall'.sess
           index == lastCall'.idx
       IN IF index < 0 \/ index >= Len(entries[s])
          THEN /\ lastCall'.ret = "False"
               /\ entries' = entries
               /\ dataFile' = dataFile
               /\ backupFile' = backupFile
          ELSE lastCall'.ret = "True"]_vars

C2_Witness ==
  /\ lastCall.op \in {"edit", "delete"}
  /\ lastCall.ret = "False"
  /\ lastCall.idx >= Len(entries[Sess])
  /\ Len(entries[Sess]) > 0
  /\ dataFile.kind = "token"

\* The records of a decrypted JSON list that JournalEntry(**record) rejects.
Malformed(k, data) ==
  /\ CanDecrypt(k, data)
  /\ \/ ~json_ok(Decrypt(k, data))
     \/ \E i \in 1..Len(json_loads(Decrypt(k, data))) :
          ~CanConstruct(json_loads(Decrypt(k, data))[i])

\* C3: corrupted file recovery. An open whose load of a non-empty data file
\* fails (read failure, undecryptable content, malformed payload) completes
\* with an empty collection and a diagnostic, and leaves the data file and
\* the backup file as they were.
C3_CorruptRecovery ==
  [][(/\ lastCall'.op = "open"
      /\ ~lastCall'.fault
      /\ dataFile.kind \notin {"missing", "empty"}
      /\ \/ lastCall'.io = "fail"
         \/ ~CanDecrypt(key'[lastCall'.sess], dataFile)
         \/ Malformed(key'[lastCall'.sess], dataFile))
     => /\ st'[lastCall'.sess] = "open"
        /\ entries'[lastCall'.sess] = <<>>
        /\ lastCall'.diag = "load_error"
        /\ dataFile' = dataFile
        /\ backupFile' = backupFile]_vars

C3_Witness ==
  /\ lastCall.op = "open"
  /\ ~lastCall.fault
  /\ lastCall.io = "ok"
  /\ dataFile.kind \notin {"missing", "empty"}
  /\ ~CanDecrypt(key[Sess], dataFile)
  /\ entries[Sess] = <<>>
  /\ lastCall.diag = "load_error"

\* C4: key stability. The key file is written only by an open that finds
\* it missing, and never again once it exists; a session holds exactly the
\* key file's content and keeps it for as long as it is open.
C4_KeyStability ==
  [][/\ keyFile # "missing" => keyFile' = keyFile
     /\ keyFile' # keyFile => lastCall'.op = "open"
     /\ \A s \in Sessions :
          /\ st'[s] = "open" => key'[s] = keyFile'
          /\ (st[s] = "open" /\ st'[s] = "open") => key'[s] = key[s]]_vars

\* A later open: the backup exists, so an earlier session has saved, and the
\* session just opened holds the key those files were written under.
C4_Witness ==
  /\ lastCall.op = "open"
  /\ ~lastCall.fault
  /\ key[Sess] = keyFile
  /\ backupFile.kind = "token"
  /\ CanDecrypt(key[Sess], backupFile)
  /\ CanDecrypt(key[Sess], dataFile)

\* C5: save-time errors are surfaced. A mutating call whose save raised
\* returns a failure value to its caller and lets no exception escape.
C5_SaveErrorsSurfaced ==
  (lastCall.op \in Mutators /\ lastCall.diag = "save_error")
  => (lastCall.ret = "False" /\ ~lastCall.fault)

\* C6: opening never crashes on bad persisted state. Whatever the key file
\* and the data file hold, an open without I/O failure raises nothing and
\* yields an open Store.
C6_OpenNeverCrashes ==
  (lastCall.op = "open" /\ lastCall.io = "ok")
  => (~lastCall.fault /\ st[Sess] = "open")

\* C7: save is all-or-nothing for the primary file. Every step leaves the
\* data file as it was or holding the complete new ciphertext of the saving
\* session's collection.
C7_SaveAllOrNothing ==
  [][\/ dataFile' = dataFile
     \/ dataFile' = Encrypt(key[lastCall'.sess],
                            json_dumps(Records(entries'[lastCall'.sess])))]_vars

\* C8: disk mirrors memory. After an add, or an edit or delete that
\* returned True, whose save raised nothing, the data file and the backup
\* hold the same ciphertext, and it decrypts under the held key to the
\* serialization of the whole current collection.
C8_DiskMirrorsMemory ==
  (/\ lastCall.op \in Mutators
   /\ lastCall.op = "add" \/ lastCall.ret = "True"
   /\ lastCall.diag = "none")
  => /\ dataFile = backupFile
     /\ SavedFile(Sess)
     /\ json_loads(Decrypt(key[Sess], dataFile)) = Records(entries[Sess])

C8_Witness ==
  /\ lastCall.op = "delete"
  /\ lastCall.ret = "True"
  /\ lastCall.diag = "none"
  /\ Len(entries[Sess]) = 1
  /\ dataFile = backupFile
  /\ SavedFile(Sess)

\* C9: list semantics. add appends at the end; edit(i, e) with valid i
\* replaces position i and nothing else; delete(i) with valid i removes
\* position i and shifts the later entries down by one.
C9_ListSemantics ==
  [][LET c == lastCall'
         old == entries[c.sess]
         new == entries'[c.sess]
         valid == 0 <= c.idx /\ c.idx < Len(old)
     IN /\ c.op = "add" => new = Append(old, c.arg)
        /\ (c.op = "edit" /\ valid) =>
             /\ Len(new) = Len(old)
             /\ new[c.idx + 1] = c.arg
             /\ \A j \in 1..Len(old) : j # c.idx + 1 => new[j] = old[j]
        /\ (c.op = "delete" /\ valid) =>
             new = SubSeq(old, 1, c.idx) \o SubSeq(old, c.idx + 2, Len(old))]_vars

\* add A, add B, delete(0) gives [B] at index 0.
C9_Witness ==
  /\ lastCall.op = "delete"
  /\ lastCall.idx = 0
  /\ lastCall.ret = "True"
  /\ Len(entries[Sess]) = 1
  /\ entries[Sess][1].title = "B"

\* C10: missing or empty data file. An open that finds a usable key file
\* (absent or valid) and meets no I/O failure, with the data file missing
\* or empty, yields an open Store with an empty collection, reports
\* nothing, and leaves the data file and the backup file as they were.
C10_EmptyLoad ==
  [][(/\ lastCall'.op = "open"
      /\ lastCall'.io = "ok"
      /\ keyFile # "corrupt"
      /\ dataFile.kind \in {"missing", "empty"})
     => /\ ~lastCall'.fault
        /\ st'[lastCall'.sess] = "open"
        /\ entries'[lastCall'.sess] = <<>>
        /\ lastCall'.diag = "none"
        /\ dataFile' = dataFile
        /\ backupFile' = backupFile]_vars

C10_Witness ==
  /\ lastCall.op = "open"
  /\ ~lastCall.fault
  /\ lastCall.diag = "none"
  /\ dataFile.kind = "empty"
  /\ st[Sess] = "open"
  /\ entries[Sess] = <<>>


\* The entries of ents, in order, whose day lies in lo..hi.
RECURSIVE OnDays(_, _, _)
OnDays(ents, lo, hi) ==
  IF ents = <<>> THEN <<>>
  ELSE (IF lo <= Head(ents).date.day /\ Head(ents).date.day <= hi
        THEN <<Head(ents)>> ELSE <<>>) \o OnDays(Tail(ents), lo, hi)

\* C11: date-range search. With well-formed start and end the result is
\* exactly the entries, in collection order, whose calendar day d has
\* start <= d <= end (an entry made at any time on the end day matches);
\* a malformed start or end yields no results; either way the collection
\* and the files are left unchanged.
C11_DateRangeSearch ==
  [][lastCall'.op = "search" =>
       LET c == lastCall'
           a == c.arg
       IN /\ IF a.start.text = "ymd" /\ a.end.text = "ymd"
             THEN c.ret = OnDays(entries[c.sess], a.start.day, a.end.day)
             ELSE c.ret = <<>> /\ c.diag = "invalid_date"
          /\ entries' = entries
          /\ dataFile' = dataFile
          /\ backupFile' = backupFile
          /\ keyFile' = keyFile]_vars

\* A search ending on day 2 shows the entry made later on day 2, after one
\* that is out of range.
C11_Witness ==
  /\ lastCall.op = "search"
  /\ lastCall.arg.start = DateText(2)
  /\ lastCall.arg.end = DateText(2)
  /\ Len(entries[Sess]) = 2
  /\ entries[Sess][1].date.day = 1
  /\ Len(lastCall.ret) = 1
  /\ lastCall.ret[1].date = [day |-> 2, tod |-> 1]


\* C12: two sessions on one username. The journal file holds exactly the
\* full collection of the session whose save of it completed last, under
\* the shared key, and a save leaves the other session's in-memory
\* collection alone. Nothing but a later save touches the journal file, so
\* this is: every completed write of the journal file leaves in it the
\* writer's full collection.
C12_LastSaveWins ==
  [][lastCall'.op = "write_primary" =>
       /\ key[lastCall'.sess] = keyFile
       /\ dataFile' = Pending(lastCall'.sess)
       /\ \A t \in Sessions \ {lastCall'.sess} : entries'[t] = entries[t]]_vars

\* Session s is open on the empty fallback of a failed load: its open has
\* just reported a load error, or the journal file holds content it
\* cannot load.
FellBack(s) ==
  /\ st[s] = "open"
  /\ entries[s] = <<>>
  /\ \/ lastCall.op = "open" /\ lastCall.sess = s /\ lastCall.diag = "load_error"
     \/ /\ dataFile.kind \notin {"missing", "empty"}
        /\ ~CanDecrypt(key[s], dataFile) \/ Malformed(key[s], dataFile)

\* C13: after a load that fell back to the empty collection, an add whose
\* save raises nothing overwrites the journal file and the backup with the
\* ciphertext of the one new entry, so the content that was stored is in
\* neither file; edit and delete return False and write nothing.
C13_AddAfterFailedLoad ==
  [][\A s \in Sessions : (FellBack(s) /\ lastCall'.sess = s) =>
       /\ (lastCall'.op = "add" /\ lastCall'.diag = "none") =>
            /\ dataFile' = Encrypt(key[s], json_dumps(<<to_dict(lastCall'.arg)>>))
            /\ backupFile' = dataFile'
       /\ lastCall'.op \in {"edit", "delete"} =>
            /\ lastCall'.ret = "False"
            /\ entries' = entries
            /\ dataFile' = dataFile
            /\ backupFile' = backupFile]_vars

\* A session opened on a journal file it cannot load (the payload is not
\* JSON), fell back to the empty collection, and had an edit or delete
\* refused; the file is still as it was.
C13_Witness ==
  /\ lastCall.op \in {"edit", "delete"}
  /\ lastCall.ret = "False"
  /\ st[Sess] = "open"
  /\ entries[Sess] = <<>>
  /\ dataFile = Encrypt(key[Sess], NotJson)

====
